---------------------------- MODULE Spec2Model ----------------------------
(***************************************************************************)
(* Model of find_duplicates.py: the command-line run of                    *)
(* SnykDuplicateFinder (paginated fetch, grouping, report, output).        *)
(*                                                                         *)
(* JSON values that the code reads through nullable accessors are tagged    *)
(* records: Null (Python None), Str(s), Obj(f) with f a function from key   *)
(* names to values; a key that is absent is not in DOMAIN f.  Python dicts  *)
(* whose order matters (insertion order) are sequences of [k, v] entries.   *)
(* The text rendering of json.dumps is not modelled: the document written   *)
(* is the report object itself.                                             *)
(***************************************************************************)
EXTENDS Integers, Sequences, FiniteSets, TLC

VARIABLES
    pc,            \* control point of main()/run()
    api_token,     \* args.api_token
    output,        \* args.output
    url,           \* fetch_all_projects: url
    params,        \* fetch_all_projects: params
    all_projects,  \* fetch_all_projects: all_projects
    all_targets,   \* fetch_all_projects: all_targets
    requests,      \* history: every requests.get issued, in order
    responses,     \* history: what each request produced, in order
    duplicates,    \* run: duplicates
    report,        \* main: report
    stdout,        \* documents printed to the primary output stream
    file,          \* content of the file at args.output
    exit_status    \* process exit status

vars == <<pc, api_token, output, url, params, all_projects, all_targets,
          requests, responses, duplicates, report, stdout, file, exit_status>>

---------------------------------------------------------------------------
(* Bounds of the model *)

\* requests the fetch loop may issue in one run
MaxPages == 2

\* length of the project list handed to the analysis in SpecAnalyze
MaxProjects == 4

---------------------------------------------------------------------------
(* JSON / Python values *)

Null == [t |-> "null"]

Str(s) == [t |-> "str", s |-> s]

Obj(f) == [t |-> "obj", o |-> f]

EmptyDict == Obj(<<>>)

\* what an uncaught AttributeError ('NoneType' object has no attribute 'get')
\* leaves in place of a result
AttributeError == [raised |-> TRUE, type |-> "AttributeError"]

\* a call that returned
Return(value) == [raised |-> FALSE, value |-> value]

IsDict(v) == v.t = "obj"

\* dict.get(k, d) on a value that is a dict
Get(v, k, d) == IF k \in DOMAIN v.o THEN v.o[k] ELSE d

\* Python truthiness of None, str and dict
Truthy(v) ==
    CASE v.t = "null" -> FALSE
      [] v.t = "str" -> v.s # ""
      [] v.t = "obj" -> DOMAIN v.o # {}

\* Python `a or b`
Or(a, b) == IF Truthy(a) THEN a ELSE b

\* str.startswith
startswith(s, prefix) ==
    /\ Len(s) >= Len(prefix)
    /\ Len(prefix) = 0 \/ SubSeq(s, 1, Len(prefix)) = prefix

---------------------------------------------------------------------------
(* Program constants and command line *)

org_id == "X"

base_url == "https://api.eu.snyk.io/rest"

api_version == "2025-11-05"

projects_url == base_url \o "/orgs/" \o org_id \o "/projects"

initial_params == [version |-> api_version, expand |-> "target", limit |-> 100]

ApiTokens == {Null, Str(""), Str("tok")}

Outputs == {Null, Str("report.json")}

---------------------------------------------------------------------------
(* The remote API's records the runs are fed *)

TargetRef(tid) ==
    Obj([target |-> Obj([data |-> Obj([id |-> Str(tid), type |-> Str("target")])])])

Attrs(name) ==
    Obj([name |-> Str(name), type |-> Str("npm"), origin |-> Str("github")])

pA1 == Obj([id |-> Str("p1"), attributes |-> Attrs("a"), relationships |-> TargetRef("t1")])

pA1b == Obj([id |-> Str("p9"), attributes |-> Attrs("a"), relationships |-> TargetRef("t1")])

pA2 == Obj([id |-> Str("p2"), attributes |-> Attrs("a"), relationships |-> TargetRef("t2")])

pB1 == Obj([id |-> Str("p3"), attributes |-> Attrs("b"), relationships |-> TargetRef("t1")])

\* no "relationships" key, no type and origin
pNoRel == Obj([id |-> Str("p4"), attributes |-> Obj([name |-> Str("a")])])

\* target linkage without an "id"
pNoId ==
    Obj([id |-> Str("p5"), attributes |-> Attrs("a"),
         relationships |-> Obj([target |-> Obj([data |-> Obj([type |-> Str("target")])])])])

\* no "attributes" key
pNoAttr == Obj([id |-> Str("p6"), relationships |-> TargetRef("t1")])

\* JSON:API's empty to-one linkage: "target": {"data": null}
pNullData ==
    Obj([id |-> Str("p7"), attributes |-> Attrs("a"),
         relationships |-> Obj([target |-> Obj([data |-> Null])])])

\* "attributes": null
pNullAttr == Obj([id |-> Str("p8"), attributes |-> Null, relationships |-> TargetRef("t1")])

RawProjects == {pA1, pA2, pB1, pNoRel, pNoId, pNoAttr, pNullData, pNullAttr}

Target(tid, attributes) ==
    Obj([id |-> Str(tid), type |-> Str("target"), attributes |-> attributes])

DisplayName(d) == Obj([display_name |-> Str(d)])

tRepo1 == Target("t1", DisplayName("repo"))

tRepo2 == Target("t2", DisplayName("repo"))

tOther1 == Target("t1", DisplayName("other"))

tOther2 == Target("t2", DisplayName("other"))

\* a target whose display name is another target's identifier
tNamedT2 == Target("t1", DisplayName("t2"))

\* a target without a display name
tNoName2 == Target("t2", EmptyDict)

\* a target whose display name is null
tNullName2 == Target("t2", Obj([display_name |-> Null]))

\* an included record of another type carrying a target's identifier
nonTarget == Obj([id |-> Str("t1"), type |-> Str("user")])

\* the target maps the analysis is checked on (SpecAnalyze)
TargetMaps ==
    { <<>>,
      (Str("t1") :> tRepo1) @@ (Str("t2") :> tOther2),
      (Str("t1") :> tRepo1) @@ (Str("t2") :> tRepo2),
      (Str("t1") :> tRepo1) @@ (Str("t2") :> tNullName2),
      (Str("t1") :> tNamedT2) @@ (Str("t2") :> tNoName2) }

\* "data" arrays of the pages served to the fetch loop (Spec)
FetchDataArrays == { <<>>, <<pA1>>, <<pA1b, pB1>>, <<pNullData>> }

\* "included" arrays of the pages served to the fetch loop (Spec)
FetchIncludedArrays == { <<tRepo1>>, <<tOther1, nonTarget>> }

RelativeNext == "/rest/orgs/X/projects?version=2025-11-05&limit=100&starting_after=p"

AbsoluteNext == "https://api.snyk.io/rest/orgs/X/projects?starting_after=p"

FetchLinks ==
    { Obj([next |-> Null]), Obj([next |-> Str(RelativeNext)]),
      Obj([next |-> Str(AbsoluteNext)]) }

DataParts == {<<>>} \cup {[data |-> d] : d \in FetchDataArrays}

IncludedParts == {<<>>} \cup {[included |-> i] : i \in FetchIncludedArrays}

LinksParts == {<<>>} \cup {[links |-> l] : l \in FetchLinks}

\* response bodies without an "errors" member
OkPages == {Obj(d @@ i @@ l) : d \in DataParts, i \in IncludedParts, l \in LinksParts}

ApiErrors == <<[status |-> "403", detail |-> "Forbidden"]>>

\* response bodies with an "errors" member, bare or beside other members
ErrorPages ==
    { Obj([errors |-> ApiErrors]),
      Obj([errors |-> ApiErrors, data |-> <<pB1>>, included |-> <<tOther1>>,
           links |-> Obj([next |-> Str(RelativeNext)])]) }

---------------------------------------------------------------------------
(* fetch_all_projects *)

\* what requests.get + raise_for_status + response.json() left for one request
Response(data) == [raised |-> FALSE, json |-> data]

RequestException == [raised |-> TRUE, type |-> "RequestException"]

Request(u, p) == [url |-> u, params |-> p]

\* mutant of extend_projects: the page's array replaces the list
extend_projects_replace(projects, data) ==
    IF "data" \in DOMAIN data.o THEN data.o["data"] ELSE projects

\* lines 56-58
extend_projects(projects, data) ==
    IF "data" \in DOMAIN data.o THEN projects \o data.o["data"] ELSE projects

\* lines 63-65, one item of "included"
collect_target(targets, item) ==
    IF Get(item, "type", Null) = Str("target")
    THEN LET target_id == Get(item, "id", Null)
         IN  [k \in DOMAIN targets \cup {target_id} |->
                 IF k = target_id THEN item ELSE targets[k]]
    ELSE targets

\* lines 61-65
collect_targets(targets, data) ==
    IF "included" \in DOMAIN data.o
    THEN LET included == data.o["included"]
             acc[i \in 0..Len(included)] ==
                 IF i = 0 THEN targets ELSE collect_target(acc[i - 1], included[i])
         IN  acc[Len(included)]
    ELSE targets

\* line 68
next_link(data) == Get(Get(data, "links", EmptyDict), "next", Null)

\* mutant of next_url_of: only an absolute link is followed
next_url_of_absolute_only(data) ==
    LET next_url == next_link(data)
    IN  IF Truthy(next_url) /\ ~startswith(next_url.s, "/") THEN next_url ELSE Null

\* lines 69-78: the url of the next iteration, None to leave the loop
next_url_of(data) ==
    LET next_url == next_link(data)
    IN  IF Truthy(next_url)
        THEN IF startswith(next_url.s, "/")
             THEN Str("https://api.eu.snyk.io" \o next_url.s)
             ELSE next_url
        ELSE Null

\* mutant of next_params_of: the params are never cleared
next_params_of_kept(data, p) == p

\* lines 69-78: the params of the next iteration
next_params_of(data, p) == IF Truthy(next_link(data)) THEN Null ELSE p

\* line 43 with the cap of the model on the requests of one run
InLoop == pc = "fetch" /\ Truthy(url) /\ Len(requests) < MaxPages

\* lines 43-78: one iteration whose response carries no "errors"
fetch_page ==
    /\ InLoop
    /\ \E data \in OkPages :
        /\ requests' = Append(requests, Request(url, params))
        /\ responses' = Append(responses, Response(data))
        /\ all_projects' = extend_projects(all_projects, data)
        /\ all_targets' = collect_targets(all_targets, data)
        /\ url' = next_url_of(data)
        /\ params' = next_params_of(data, params)
        /\ pc' = IF Truthy(next_url_of(data)) THEN "fetch" ELSE "analyze"
    /\ UNCHANGED <<api_token, output, duplicates, report, stdout, file, exit_status>>

\* lines 43-53, 84: a response with "errors" breaks the loop and returns
fetch_api_error ==
    /\ InLoop
    /\ \E data \in ErrorPages :
        /\ requests' = Append(requests, Request(url, params))
        /\ responses' = Append(responses, Response(data))
    /\ pc' = "analyze"
    /\ UNCHANGED <<api_token, output, url, params, all_projects, all_targets,
                   duplicates, report, stdout, file, exit_status>>

\* mutant of fetch_transport_error: the failure only leaves the loop
fetch_transport_error_soft ==
    /\ InLoop
    /\ requests' = Append(requests, Request(url, params))
    /\ responses' = Append(responses, RequestException)
    /\ pc' = "analyze"
    /\ UNCHANGED <<api_token, output, url, params, all_projects, all_targets,
                   duplicates, report, stdout, file, exit_status>>

\* lines 44-46, 80-82: requests.get or raise_for_status raises
fetch_transport_error ==
    /\ InLoop
    /\ requests' = Append(requests, Request(url, params))
    /\ responses' = Append(responses, RequestException)
    /\ pc' = "exit"
    /\ exit_status' = 1
    /\ UNCHANGED <<api_token, output, url, params, all_projects, all_targets,
                   duplicates, report, stdout, file>>

---------------------------------------------------------------------------
(* extract_project_info, find_duplicates *)

\* lines 101-105
target_name_of(target_id, targets) ==
    IF Truthy(target_id) /\ target_id \in DOMAIN targets
    THEN LET target_attributes == Get(targets[target_id], "attributes", EmptyDict)
         IN  IF IsDict(target_attributes)
             THEN Get(target_attributes, "display_name", Str(""))
             ELSE AttributeError
    ELSE Str("")

\* lines 86-114; AttributeError where a .get is called on None
extract_project_info(project, targets) ==
    LET project_id == Get(project, "id", Str(""))
        attributes == Get(project, "attributes", EmptyDict)
        relationships == Get(project, "relationships", EmptyDict)
    IN  IF ~IsDict(attributes) \/ ~IsDict(relationships) THEN AttributeError
        ELSE
        LET project_name == Get(attributes, "name", Str("Unknown"))
            target == Get(relationships, "target", EmptyDict)
        IN  IF ~IsDict(target) THEN AttributeError
            ELSE
            LET target_data == Get(target, "data", EmptyDict)
            IN  IF ~IsDict(target_data) THEN AttributeError
                ELSE
                LET target_id == Get(target_data, "id", Str(""))
                    target_name == target_name_of(target_id, targets)
                IN  IF target_name = AttributeError THEN AttributeError
                    ELSE [project_id |-> project_id,
                          project_name |-> project_name,
                          target_id |-> target_id,
                          target_name |-> target_name,
                          project_type |-> Get(attributes, "type", Str("")),
                          origin |-> Get(attributes, "origin", Str(""))]

\* line 126
target_key_of(info) == Or(Or(info.target_name, info.target_id), Str("unknown"))

\* defaultdict(list): d[k].append(x), keys kept in insertion order
dict_append(d, k, x) ==
    IF \E i \in 1..Len(d) : d[i].k = k
    THEN [i \in 1..Len(d) |-> IF d[i].k = k THEN [d[i] EXCEPT !.v = Append(@, x)] ELSE d[i]]
    ELSE Append(d, [k |-> k, v |-> <<x>>])

\* lines 122-127, over the extracted infos
group_by_target(infos) ==
    LET by_target[i \in 0..Len(infos)] ==
            IF i = 0 THEN <<>>
            ELSE dict_append(by_target[i - 1], target_key_of(infos[i]), infos[i])
    IN  by_target[Len(infos)]

\* lines 134-136
group_by_project_name(target_projects) ==
    LET by_project_name[i \in 0..Len(target_projects)] ==
            IF i = 0 THEN <<>>
            ELSE dict_append(by_project_name[i - 1], target_projects[i].project_name,
                             target_projects[i])
    IN  by_project_name[Len(target_projects)]

\* mutant of is_duplicate: every name counts as duplicated
is_duplicate_any(entry) == Len(entry.v) >= 1

\* line 142
is_duplicate(entry) == Len(entry.v) > 1

\* lines 139-143
duplicate_projects_of(target_projects) ==
    SelectSeq(group_by_project_name(target_projects), is_duplicate)

\* line 146
has_duplicates(entry) == entry.v # <<>>

\* lines 116-149
find_duplicates(projects, targets) ==
    LET infos == [i \in 1..Len(projects) |-> extract_project_info(projects[i], targets)]
    IN  IF \E i \in 1..Len(projects) : infos[i] = AttributeError
        THEN AttributeError
        ELSE LET by_target == group_by_target(infos)
                 per_target == [i \in 1..Len(by_target) |->
                                   [k |-> by_target[i].k,
                                    v |-> duplicate_projects_of(by_target[i].v)]]
             IN  Return(SelectSeq(per_target, has_duplicates))

---------------------------------------------------------------------------
(* generate_report, run, main *)

\* lines 171-175
duplicate_entry_of(entry) ==
    [project_name |-> entry.k, duplicate_count |-> Len(entry.v), projects |-> entry.v]

\* lines 164-178
target_group_of(entry) ==
    [target_name |-> entry.k,
     duplicate_project_names |-> [j \in 1..Len(entry.v) |-> duplicate_entry_of(entry.v[j])]]

\* mutant of count_duplicate_projects: the groups are counted, not their members
count_duplicate_groups(dups) ==
    LET total[i \in 0..Len(dups)] ==
            IF i = 0 THEN 0 ELSE total[i - 1] + Len(dups[i].v)
    IN  total[Len(dups)]

\* lines 161, 169-170: the running total after the loops
count_duplicate_projects(dups) ==
    LET in_target(groups) ==
            LET t[j \in 0..Len(groups)] ==
                    IF j = 0 THEN 0 ELSE t[j - 1] + Len(groups[j].v)
            IN  t[Len(groups)]
        total[i \in 0..Len(dups)] ==
            IF i = 0 THEN 0 ELSE total[i - 1] + in_target(dups[i].v)
    IN  total[Len(dups)]

\* lines 151-182
generate_report(dups) ==
    [org_id |-> org_id,
     total_targets_with_duplicates |-> Len(dups),
     duplicates_by_target |-> [i \in 1..Len(dups) |-> target_group_of(dups[i])],
     total_duplicate_projects |-> count_duplicate_projects(dups)]

\* line 198
empty_report == [org_id |-> org_id, duplicates_by_target |-> <<>>]

\* lines 196-203
report_of(dups) == IF dups = <<>> THEN empty_report ELSE generate_report(dups)

\* lines 225-233, 189, 33-41: the credential check, then the start of the fetch
main_start ==
    /\ pc = "main"
    /\ IF ~Truthy(api_token)
       THEN /\ pc' = "exit"
            /\ exit_status' = 1
            /\ UNCHANGED <<url, params>>
       ELSE /\ pc' = "fetch"
            /\ url' = Str(projects_url)
            /\ params' = initial_params
            /\ UNCHANGED exit_status
    /\ UNCHANGED <<api_token, output, all_projects, all_targets, requests, responses,
                   duplicates, report, stdout, file>>

\* lines 189-194: find_duplicates on what the fetch returned; an exception it
\* raises is caught nowhere and ends the process with a traceback and status 1
run_find_duplicates ==
    /\ pc = "analyze"
    /\ LET result == find_duplicates(all_projects, all_targets)
       IN  IF result.raised
           THEN /\ pc' = "crashed"
                /\ exit_status' = 1
                /\ UNCHANGED duplicates
           ELSE /\ pc' = "report"
                /\ duplicates' = result.value
                /\ UNCHANGED exit_status
    /\ UNCHANGED <<api_token, output, url, params, all_projects, all_targets,
                   requests, responses, report, stdout, file>>

\* lines 196-203, 233
run_report ==
    /\ pc = "report"
    /\ report' = report_of(duplicates)
    /\ pc' = "output"
    /\ UNCHANGED <<api_token, output, url, params, all_projects, all_targets,
                   requests, responses, duplicates, stdout, file, exit_status>>

\* lines 236-243, then the normal end of the process
main_output ==
    /\ pc = "output"
    /\ IF Truthy(output)
       THEN file' = report /\ UNCHANGED stdout
       ELSE stdout' = Append(stdout, report) /\ UNCHANGED file
    /\ pc' = "done"
    /\ exit_status' = 0
    /\ UNCHANGED <<api_token, output, url, params, all_projects, all_targets,
                   requests, responses, duplicates, report>>

---------------------------------------------------------------------------
(* Specifications *)

\* the process has not ended: exit_status is -1
Init ==
    /\ pc = "main"
    /\ api_token \in ApiTokens
    /\ output \in Outputs
    /\ url = Null
    /\ params = Null
    /\ all_projects = <<>>
    /\ all_targets = <<>>
    /\ requests = <<>>
    /\ responses = <<>>
    /\ duplicates = <<>>
    /\ report = Null
    /\ stdout = <<>>
    /\ file = Null
    /\ exit_status = -1

Next ==
    \/ main_start
    \/ fetch_page
    \/ fetch_api_error
    \/ fetch_transport_error
    \/ run_find_duplicates
    \/ run_report
    \/ main_output

\* the whole run of main()
Spec == Init /\ [][Next]_vars

\* the "included" array that yields a target map
included_of(targets) ==
    IF DOMAIN targets = {} THEN <<>> ELSE <<targets[Str("t1")], targets[Str("t2")]>>

\* the state after a fetch of one page: the analysis on bounded inputs
InitAnalyze ==
    /\ pc = "analyze"
    /\ api_token = Str("tok")
    /\ output = Null
    /\ url = Null
    /\ params = initial_params
    /\ all_projects \in UNION {[1..n -> RawProjects] : n \in 0..MaxProjects}
    /\ all_targets \in TargetMaps
    /\ requests = <<Request(Str(projects_url), initial_params)>>
    /\ responses = <<Response(Obj([data |-> all_projects,
                                    included |-> included_of(all_targets)]))>>
    /\ duplicates = <<>>
    /\ report = Null
    /\ stdout = <<>>
    /\ file = Null
    /\ exit_status = -1

NextAnalyze ==
    \/ run_find_duplicates
    \/ run_report
    \/ main_output

\* find_duplicates, generate_report and the output on bounded inputs
SpecAnalyze == InitAnalyze /\ [][NextAnalyze]_vars

---------------------------------------------------------------------------
(* What the histories say, stated apart from the code's operators *)

IsErrorPayload(r) == ~r.raised /\ "errors" \in DOMAIN r.json.o

IsOkPage(r) == ~r.raised /\ "errors" \notin DOMAIN r.json.o

AllPagesOk == \A i \in 1..Len(responses) : IsOkPage(responses[i])

\* the "next" link of a page, "" when the page carries none
PageNext(r) ==
    IF /\ "links" \in DOMAIN r.json.o
       /\ "next" \in DOMAIN r.json.o["links"].o
       /\ r.json.o["links"].o["next"].t = "str"
    THEN r.json.o["links"].o["next"].s
    ELSE ""

PageHasNext(r) == PageNext(r) # ""

PageData(r) == IF "data" \in DOMAIN r.json.o THEN r.json.o["data"] ELSE <<>>

PageIncluded(r) == IF "included" \in DOMAIN r.json.o THEN r.json.o["included"] ELSE <<>>

\* the concatenation of the "data" arrays of pages 1..n
RECURSIVE DataOfPages(_)
DataOfPages(n) == IF n = 0 THEN <<>> ELSE DataOfPages(n - 1) \o PageData(responses[n])

\* the positions <<page, index>> of the "target" records included in pages 1..n
TargetPositions(n) ==
    UNION { { <<p, i>> : i \in { j \in 1..Len(PageIncluded(responses[p])) :
                                    /\ "type" \in DOMAIN PageIncluded(responses[p])[j].o
                                    /\ PageIncluded(responses[p])[j].o["type"] = Str("target") } }
            : p \in 1..n }

TargetAt(pos) == PageIncluded(responses[pos[1]])[pos[2]]

Later(a, b) == a[1] > b[1] \/ (a[1] = b[1] /\ a[2] > b[2])

\* identifier -> the record seen last, over pages 1..n
TargetsOfPages(n) ==
    LET ids == {TargetAt(pos).o["id"] : pos \in TargetPositions(n)}
        last(id) == CHOOSE pos \in TargetPositions(n) :
                        /\ TargetAt(pos).o["id"] = id
                        /\ \A q \in TargetPositions(n) :
                               TargetAt(q).o["id"] = id => q = pos \/ Later(pos, q)
    IN  [id \in ids |-> TargetAt(last(id))]

FetchReturned == pc \in {"analyze", "report", "output", "done", "crashed"}

ReportWritten == stdout # <<>> \/ file # Null

---------------------------------------------------------------------------
(* Claims on the fetch loop, checked under Spec *)

\* C1 Pagination termination: while every response is an error-free page,
\* there is one request per page, each page before the last carries a next
\* link, the loop goes on exactly while the last page carries one, and once a
\* page without a next link has come the fetch has returned and no request
\* follows it.
C1_PaginationTermination ==
    AllPagesOk =>
        /\ Len(requests) = Len(responses)
        /\ \A i \in 1..(Len(responses) - 1) : PageHasNext(responses[i])
        /\ Len(responses) = 0 => pc \in {"main", "fetch", "exit"}
        /\ (Len(responses) > 0 /\ PageHasNext(responses[Len(responses)]))
              => (pc = "fetch" /\ Truthy(url))
        /\ (Len(responses) > 0 /\ ~PageHasNext(responses[Len(responses)]))
              => FetchReturned

C1_Witness ==
    /\ AllPagesOk
    /\ Len(responses) = MaxPages
    /\ ~PageHasNext(responses[Len(responses)])
    /\ pc = "done"

\* C3 Transport errors are fatal: a request that fails at transport level is
\* the last request, the process has exited with status 1, and nothing is on
\* the primary output stream or in the output file.
C3_TransportErrorFatal ==
    \A k \in 1..Len(responses) :
        responses[k].raised =>
            /\ k = Len(responses)
            /\ Len(requests) = Len(responses)
            /\ pc = "exit"
            /\ exit_status = 1
            /\ ~ReportWritten

C3_Witness ==
    /\ Len(responses) = MaxPages
    /\ responses[Len(responses)].raised
    /\ all_projects # <<>>
    /\ pc = "exit"

\* C4 Fetch completeness and order: when the fetch has returned and no
\* response was an error payload or a transport failure, all_projects is the
\* concatenation of the pages' "data" arrays in request order and all_targets
\* maps every identifier of an included "target" record to the record seen
\* last.
C4_FetchComplete ==
    (FetchReturned /\ AllPagesOk) =>
        /\ all_projects = DataOfPages(Len(responses))
        /\ all_targets = TargetsOfPages(Len(responses))

C4_Witness ==
    /\ FetchReturned
    /\ AllPagesOk
    /\ Len(responses) = 2
    /\ PageData(responses[1]) = <<pA1>>
    /\ PageData(responses[2]) = <<pA1b, pB1>>
    /\ PageIncluded(responses[1]) = <<tRepo1>>
    /\ PageIncluded(responses[2]) = <<tOther1, nonTarget>>

\* C8 Next-page link handling: the first request goes to the projects
\* endpoint of the organization with version, expand=target and limit=100;
\* every later request goes to the previous page's next link, prefixed with
\* the API's domain root when it starts with "/" and unchanged otherwise, and
\* carries no query parameters.
C8_NextLinkHandling ==
    \A i \in 1..Len(requests) :
        IF i = 1
        THEN /\ requests[i].url = Str("https://api.eu.snyk.io/rest/orgs/X/projects")
             /\ requests[i].params =
                    [version |-> "2025-11-05", expand |-> "target", limit |-> 100]
        ELSE LET link == PageNext(responses[i - 1])
             IN  /\ link # ""
                 /\ requests[i].url.t = "str"
                 /\ requests[i].url.s =
                        IF SubSeq(link, 1, 1) = "/"
                        THEN "https://api.eu.snyk.io" \o link
                        ELSE link
                 /\ requests[i].params = Null

C8_Witness ==
    /\ Len(requests) = 2
    /\ PageNext(responses[1]) = RelativeNext
    /\ requests[2].url =
           Str("https://api.eu.snyk.io/rest/orgs/X/projects?version=2025-11-05&limit=100&starting_after=p")

\* C2 Soft stop on API error: a response with "errors" is the last request,
\* leaves all_projects and all_targets as they stood after the pages before
\* it, and the run goes on to analysis and reporting and ends with a report
\* written and status 0, never with a non-zero status.
C2_SoftStopOnApiError ==
    \A k \in 1..Len(responses) :
        IsErrorPayload(responses[k]) =>
            /\ k = Len(responses)
            /\ Len(requests) = Len(responses)
            /\ all_projects = DataOfPages(k - 1)
            /\ all_targets = TargetsOfPages(k - 1)
            /\ pc \in {"analyze", "report", "output", "done"}
            /\ exit_status \in {-1, 0}
            /\ pc = "done" => ReportWritten

\* C2, the part of it that is about the fetch: the error payload is the last
\* request, nothing of it is accumulated, nothing accumulated before is lost,
\* and the fetch returns to run() instead of exiting.
C2_SoftStopInFetch ==
    \A k \in 1..Len(responses) :
        IsErrorPayload(responses[k]) =>
            /\ k = Len(responses)
            /\ Len(requests) = Len(responses)
            /\ all_projects = DataOfPages(k - 1)
            /\ all_targets = TargetsOfPages(k - 1)
            /\ FetchReturned
            /\ pc = "done" => (ReportWritten /\ exit_status = 0)

---------------------------------------------------------------------------
(* What the specification says of a raw project, with null-safe navigation *)

Nav(v, k) == IF v.t = "obj" /\ k \in DOMAIN v.o THEN v.o[k] ELSE Null

NonEmptyStr(v) == v.t = "str" /\ v.s # ""

ExpectedTargetId(project) ==
    Nav(Nav(Nav(Nav(project, "relationships"), "target"), "data"), "id")

ExpectedDisplayName(project, targets) ==
    LET tid == ExpectedTargetId(project)
    IN  IF NonEmptyStr(tid) /\ tid \in DOMAIN targets
        THEN Nav(Nav(targets[tid], "attributes"), "display_name")
        ELSE Null

ExpectedKey(project, targets) ==
    IF NonEmptyStr(ExpectedDisplayName(project, targets))
    THEN ExpectedDisplayName(project, targets)
    ELSE IF NonEmptyStr(ExpectedTargetId(project))
         THEN ExpectedTargetId(project)
         ELSE Str("unknown")

ExpectedName(project) ==
    LET attributes == Nav(project, "attributes")
    IN  IF attributes.t = "obj" /\ "name" \in DOMAIN attributes.o
        THEN attributes.o["name"]
        ELSE Str("Unknown")

AnalysisReturned == pc \in {"report", "output", "done"}

AnalysisEnded == AnalysisReturned \/ pc = "crashed"

\* no two fetched projects share a target key and a project name
NoDuplicateGroup ==
    \A i, j \in 1..Len(all_projects) :
        i # j =>
            \/ ExpectedKey(all_projects[i], all_targets)
                   # ExpectedKey(all_projects[j], all_targets)
            \/ ExpectedName(all_projects[i]) # ExpectedName(all_projects[j])

EmittedReport == IF Truthy(output) THEN file ELSE stdout[Len(stdout)]

\* C10 Empty-result shape: when no target has a duplicate group, the run
\* completes with status 0 and the report emitted has exactly the keys org_id
\* (the organization identifier) and duplicates_by_target (empty).
C10_EmptyResultShape ==
    (FetchReturned /\ NoDuplicateGroup) =>
        /\ pc # "crashed"
        /\ pc = "done" =>
              /\ exit_status = 0
              /\ ReportWritten
              /\ DOMAIN EmittedReport = {"org_id", "duplicates_by_target"}
              /\ EmittedReport.org_id = org_id
              /\ EmittedReport.duplicates_by_target = <<>>

\* C10, restricted to the runs whose analysis returned: an empty duplicate
\* mapping gives the two-key report and status 0.
C10_EmptyShapeWhenAnalysisReturns ==
    (pc = "done" /\ duplicates = <<>>) =>
        /\ exit_status = 0
        /\ ReportWritten
        /\ DOMAIN EmittedReport = {"org_id", "duplicates_by_target"}
        /\ EmittedReport.org_id = org_id
        /\ EmittedReport.duplicates_by_target = <<>>

---------------------------------------------------------------------------
(* Claims on the analysis and the report, checked under SpecAnalyze *)

InfoAt(i) == extract_project_info(all_projects[i], all_targets)

KeyAt(i) == target_key_of(InfoAt(i))

\* the projects with target key k and project name n, by position
Members(k, n) ==
    {i \in 1..Len(all_projects) : KeyAt(i) = k /\ InfoAt(i).project_name = n}

\* the infos of the positions in S, in fetch order
InfosInOrder(S) ==
    LET positions == SelectSeq([i \in 1..Len(all_projects) |-> i], LAMBDA i : i \in S)
    IN  [j \in 1..Len(positions) |-> InfoAt(positions[j])]

C6_GroupsShareTargetId ==
    AnalysisReturned =>
        \A t \in 1..Len(duplicates) :
            \A g \in 1..Len(duplicates[t].v) :
                \A x, y \in 1..Len(duplicates[t].v[g].v) :
                    duplicates[t].v[g].v[x].target_id = duplicates[t].v[g].v[y].target_id

\* C7 Fallback key with graceful degradation: the analysis of any project
\* list ends without an exception, and every project is bucketed under its
\* target's display name when that is resolvable and non-empty, else under the
\* target identifier when non-empty, else under "unknown".
C7_FallbackKeyNoRaise ==
    AnalysisEnded =>
        /\ pc # "crashed"
        /\ \A i \in 1..Len(all_projects) :
               /\ InfoAt(i) # AttributeError
               /\ KeyAt(i) = ExpectedKey(all_projects[i], all_targets)

\* C7, restricted to the analyses that return: the bucket of every project is
\* the fallback key.
C7_FallbackKeyWhenAnalysisReturns ==
    AnalysisReturned =>
        \A i \in 1..Len(all_projects) :
            /\ InfoAt(i) # AttributeError
            /\ KeyAt(i) = ExpectedKey(all_projects[i], all_targets)
            /\ InfoAt(i).project_name = ExpectedName(all_projects[i])

\* the number of project records over all entries of a report
ReportedProjects(r) ==
    Cardinality(
        UNION { UNION { { <<t, g, c>> :
                            c \in 1..r.duplicates_by_target[t].duplicate_project_names[g].duplicate_count }
                        : g \in 1..Len(r.duplicates_by_target[t].duplicate_project_names) }
                : t \in 1..Len(r.duplicates_by_target) })

ExampleInfo(id) ==
    [project_id |-> Str(id), project_name |-> Str("a"), target_id |-> Str("t"),
     target_name |-> Str("r"), project_type |-> Str("npm"), origin |-> Str("github")]

\* three targets whose duplicate groups have 2, 3 and 2 members
Example232 ==
    << [k |-> Str("r1"), v |-> <<[k |-> Str("a"), v |-> <<ExampleInfo("1"), ExampleInfo("2")>>]>>],
       [k |-> Str("r2"),
        v |-> <<[k |-> Str("a"), v |-> <<ExampleInfo("3"), ExampleInfo("4"), ExampleInfo("5")>>]>>],
       [k |-> Str("r3"), v |-> <<[k |-> Str("a"), v |-> <<ExampleInfo("6"), ExampleInfo("7")>>]>>] >>

\* C9 Total accounting: in a report built from a non-empty duplicate mapping,
\* total_targets_with_duplicates is the number of entries of
\* duplicates_by_target, every duplicate_count is the length of its projects
\* list, and total_duplicate_projects is the sum of the duplicate_count of all
\* entries; group sizes 2, 3, 2 on three targets give 7 and 3.
C9_TotalAccounting ==
    /\ (pc \in {"output", "done"} /\ duplicates # <<>>) =>
           /\ report.total_targets_with_duplicates = Len(report.duplicates_by_target)
           /\ Len(report.duplicates_by_target) = Len(duplicates)
           /\ \A t \in 1..Len(report.duplicates_by_target) :
                  \A g \in 1..Len(report.duplicates_by_target[t].duplicate_project_names) :
                      LET e == report.duplicates_by_target[t].duplicate_project_names[g]
                      IN  /\ e.duplicate_count = Len(e.projects)
                          /\ e.projects = duplicates[t].v[g].v
           /\ report.total_duplicate_projects = ReportedProjects(report)
    /\ generate_report(Example232).total_duplicate_projects = 7
    /\ generate_report(Example232).total_targets_with_duplicates = 3

\* two targets with a duplicate group each: 4 project records in 2 groups
C9_Witness ==
    /\ pc = "done"
    /\ Len(duplicates) = 2
    /\ report.total_targets_with_duplicates = 2
    /\ report.total_duplicate_projects = 4

=============================================================================
